---- MODULE Spec2Model ----
(***************************************************************************)
(* character_info_system (src/main.rs): a record store loaded once from a  *)
(* JSON file, three queries over it (lookup by name, skill-tag filter,     *)
(* disadvantage aggregation), a one-shot command line and a menu loop.     *)
(*                                                                         *)
(* A String is a sequence of one-character strings, so that trimming,      *)
(* integer parsing and comma splitting are computed, not assumed.          *)
(* A &Character is the 1-based position of the character in the store.     *)
(***************************************************************************)
EXTENDS Integers, Sequences, FiniteSets, TLC

----------------------------------------------------------------------------
(* Bounds of the model *)

\* longest store the loader decodes in the model
MaxStore == 2

----------------------------------------------------------------------------
(* Pure helpers: str::trim, str::parse::<u32>, str::split, Vec::contains *)

\* u32::MAX is 4294967295, kept as quotient and remainder by ten (the checked
\* multiply and the checked add of the digit loop)
U32MaxDiv10 == 429496729

U32MaxMod10 == 5

Digits == <<"0", "1", "2", "3", "4", "5", "6", "7", "8", "9">>

IsDigit(c) == \E i \in 1..Len(Digits) : Digits[i] = c

DigitVal(c) == (CHOOSE i \in 1..Len(Digits) : Digits[i] = c) - 1

IsWhitespace(c) == c \in {" ", "\n", "\t", "\r"}

RECURSIVE TrimStart(_)
TrimStart(s) ==
    IF s = <<>> THEN <<>>
    ELSE IF IsWhitespace(Head(s)) THEN TrimStart(Tail(s))
    ELSE s

RECURSIVE TrimEnd(_)
TrimEnd(s) ==
    IF s = <<>> THEN <<>>
    ELSE IF IsWhitespace(s[Len(s)]) THEN TrimEnd(SubSeq(s, 1, Len(s) - 1))
    ELSE s

\* str::trim: both ends, inner whitespace kept
Trim(s) == TrimEnd(TrimStart(s))

Err == [ok |-> FALSE, val |-> 0]

Ok(v) == [ok |-> TRUE, val |-> v]

\* the digit loop of u32::from_str: every char a decimal digit, no overflow
RECURSIVE ParseDigits(_, _)
ParseDigits(s, acc) ==
    IF s = <<>> THEN Ok(acc)
    ELSE IF ~IsDigit(Head(s)) THEN Err
    ELSE IF acc > U32MaxDiv10 THEN Err
    ELSE IF acc = U32MaxDiv10 /\ DigitVal(Head(s)) > U32MaxMod10 THEN Err
    ELSE ParseDigits(Tail(s), acc * 10 + DigitVal(Head(s)))

\* str::parse::<u32>: empty is an error, one leading "+" is accepted, "-" is not
ParseU32(s) ==
    IF s = <<>> THEN Err
    ELSE IF Head(s) = "+" THEN (IF Tail(s) = <<>> THEN Err ELSE ParseDigits(Tail(s), 0))
    ELSE ParseDigits(s, 0)

UnwrapOr(r, d) == IF r.ok THEN r.val ELSE d

\* mutant: the fallback of an unparsable choice is the Exit option
ParseChoiceDefaultExit(line) == UnwrapOr(ParseU32(Trim(line)), 4)

\* line 129: choice.trim().parse::<u32>().unwrap_or(0)
ParseChoice(line) == UnwrapOr(ParseU32(Trim(line)), 0)

\* str::split(sep): always at least one piece, empty pieces kept
RECURSIVE SplitFrom(_, _, _)
SplitFrom(s, sep, cur) ==
    IF s = <<>> THEN <<cur>>
    ELSE IF Head(s) = sep THEN <<cur>> \o SplitFrom(Tail(s), sep, <<>>)
    ELSE SplitFrom(Tail(s), sep, Append(cur, Head(s)))

Split(s, sep) == SplitFrom(s, sep, <<>>)

\* line 157: names.trim().split(',').map(|s| s.trim()).collect()
ParseNames(line) ==
    LET parts == Split(Trim(line), ",")
    IN  [i \in 1..Len(parts) |-> Trim(parts[i])]

Contains(v, x) == \E i \in 1..Len(v) : v[i] = x

----------------------------------------------------------------------------
(* The query engine *)

None == 0

\* characters.iter().find(|c| c.name == name), scanning from position i
RECURSIVE FindFrom(_, _, _)
FindFrom(characters, name, i) ==
    IF i > Len(characters) THEN None
    ELSE IF characters[i].name = name THEN i
    ELSE FindFrom(characters, name, i + 1)

\* mutant: the scan keeps the last match (iter().rev().find(..))
RECURSIVE FindLastFrom(_, _, _)
FindLastFrom(characters, name, i) ==
    IF i < 1 THEN None
    ELSE IF characters[i].name = name THEN i
    ELSE FindLastFrom(characters, name, i - 1)

FindByNameLast(characters, name) == FindLastFrom(characters, name, Len(characters))

FindByName(characters, name) == FindFrom(characters, name, 1)

\* mutant: only the first skill is looked at (skills.first() for skills.iter().any)
HasSkillTagFirstOnly(character, tag) ==
    /\ character.skills # <<>>
    /\ Contains(character.skills[1].tags, tag)

\* the closure of line 115: any skill of the character carries the tag
HasSkillTag(character, tag) ==
    \E k \in 1..Len(character.skills) : Contains(character.skills[k].tags, tag)

\* filter(..).collect(), scanning from position i: the references kept, in order
RECURSIVE FilterFrom(_, _, _)
FilterFrom(characters, tag, i) ==
    IF i > Len(characters) THEN <<>>
    ELSE IF HasSkillTag(characters[i], tag)
         THEN <<i>> \o FilterFrom(characters, tag, i + 1)
         ELSE FilterFrom(characters, tag, i + 1)

find_characters_by_skill_tag(characters, tag) == FilterFrom(characters, tag, 1)

\* *counts.entry(d).or_insert(0) += 1
Bump(counts, d) ==
    IF d \in DOMAIN counts
    THEN [counts EXCEPT ![d] = @ + 1]
    ELSE [k \in DOMAIN counts \cup {d} |-> IF k = d THEN 1 ELSE counts[k]]

\* the inner loop of lines 98-100 over one disadvantages list
RECURSIVE CountList(_, _)
CountList(counts, ds) ==
    IF ds = <<>> THEN counts
    ELSE CountList(Bump(counts, Head(ds)), Tail(ds))

\* mutant: the selection test of line 97 is dropped
CountCharacterUnselected(counts, character, selected) ==
    CountList(counts, character.disadvantages)

\* a selected character contributes its list, once
CountCharacter(counts, character, selected) ==
    IF Contains(selected, character.name)
    THEN CountList(counts, character.disadvantages)
    ELSE counts

\* the outer loop of lines 96-102, from position i
RECURSIVE CountFrom(_, _, _, _)
CountFrom(counts, characters, selected, i) ==
    IF i > Len(characters) THEN counts
    ELSE CountFrom(CountCharacter(counts, characters[i], selected),
                   characters, selected, i + 1)

EmptyMap == [k \in {} |-> 0]

disadvantage_counts(characters, selected) ==
    CountFrom(EmptyMap, characters, selected, 1)

\* HashMap::into_iter: every order of the entries is a possible one
IterOrders(counts) ==
    LET K == DOMAIN counts
        n == Cardinality(K)
    IN  {f \in [1..n -> K] : \A i, j \in 1..n : i # j => f[i] # f[j]}

\* mutant: the comparator the other way round, a.1.cmp(&b.1)
BeforeAscending(counts, a, b) == counts[a] < counts[b]

\* the comparator of line 107: b.1.cmp(&a.1) is Less, so a goes before b
Before(counts, a, b) == counts[b] < counts[a]

\* stable insertion of x into a sorted run: after every entry not ordered after it
RECURSIVE InsertSorted(_, _, _)
InsertSorted(counts, run, x) ==
    IF run = <<>> THEN <<x>>
    ELSE IF Before(counts, x, Head(run)) THEN <<x>> \o run
    ELSE <<Head(run)>> \o InsertSorted(counts, Tail(run), x)

\* slice::sort_by: a stable sort, entries taken left to right
RECURSIVE SortFrom(_, _, _)
SortFrom(counts, run, rest) ==
    IF rest = <<>> THEN run
    ELSE SortFrom(counts, InsertSorted(counts, run, Head(rest)), Tail(rest))

SortBy(counts, entries) == SortFrom(counts, <<>>, entries)

\* every list find_disadvantages can return for these arguments
find_disadvantages(characters, selected) ==
    LET counts == disadvantage_counts(characters, selected)
    IN  {SortBy(counts, order) : order \in IterOrders(counts)}

----------------------------------------------------------------------------
(* Inputs: the data file, the command line, standard input *)

Str(c) == <<c>>

\* sample records; names and tags are Strings, the rest is only displayed or counted
Roster ==
    { [name |-> Str("a"), class |-> "knight",
       disadvantages |-> <<"slow", "frail">>,
       skills |-> << [name |-> "bash", tags |-> <<Str("a")>>] >>],
      [name |-> Str("A"), class |-> "mage",
       disadvantages |-> <<"frail", "costly">>,
       skills |-> << [name |-> "nap", tags |-> <<>>],
                     [name |-> "bolt", tags |-> <<Str("A"), Str("a")>>] >>],
      [name |-> Str("a"), class |-> "thief",
       disadvantages |-> <<"frail", "frail">>,
       skills |-> <<>>],
      [name |-> <<>>, class |-> "ghost",
       disadvantages |-> <<"costly">>,
       skills |-> << [name |-> "wail", tags |-> <<Str("A")>>] >>] }

Stores == UNION {[1..n -> Roster] : n \in 0..MaxStore}

\* what File::open and from_reader can make of opt.file
Files ==
    {[status |-> st, data |-> <<>>] : st \in {"missing", "unreadable", "malformed"}}
        \cup {[status |-> "ok", data |-> d] : d \in Stores}

\* Option<T>: None is {}, Some(v) is {v}
Some(v) == {v}

IsSome(o) == o # {}

Unwrap(o) == CHOOSE v \in o : TRUE

Opts ==
    [character : {{}, Some(Str("a"))},
     skill_tag : {{}, Some(Str("a"))},
     meta : {{}, Some(<<>>), Some(<<Str("A"), Str("a"), Str("a")>>)},
     interactive : BOOLEAN]

Alphabet == {"1", "2", "3", "4", "a", "A", " ", ","}

\* lines typed at a prompt, without the newline that read_line appends
LongLines ==
    { <<"a", "b", "c">>, <<"a", ",", "A">>, <<"a", ",", "a">>,
      <<" ", "a", ",", " ", "A", " ">>, <<"0", "0", "4">>,
      <<"+">>, <<"+", "1">>, <<"-", "1">>, <<"1", "+">>,
      <<"4", "2", "9", "4", "9", "6", "7", "2", "9", "6">> }

Lines ==
    {<<>>} \cup {<<c>> : c \in Alphabet}
        \cup {<<c, d>> : c \in Alphabet, d \in Alphabet}
        \cup LongLines

----------------------------------------------------------------------------
(* State *)

VARIABLES
    file,        \* what is at opt.file
    opt,         \* the parsed command line (struct Opt)
    characters,  \* main's `characters`, empty until loaded
    pc,          \* position in main / interactive_mode
    status,      \* "running", or how the process ended
    stdin_open,  \* FALSE once a read has met end-of-stream
    line,        \* the String the current iteration read into
    call,        \* the query made in the current scope, {} if none
    out,         \* the last thing printed
    ran,         \* the one-shot queries main has executed, with what each printed
    looped       \* interactive_mode was called

vars == <<file, opt, characters, pc, status, stdin_open, line, call, out, ran,
          looped>>

Nothing == [kind |-> "nothing"]

Menu == [kind |-> "menu"]

Prompt(text) == [kind |-> "prompt", text |-> text]

NotFound == [kind |-> "message", text |-> "Character not found."]

Invalid == [kind |-> "message", text |-> "Invalid option, try again."]

\* display_character(&characters[i])
Display(i) == [kind |-> "character", index |-> i]

\* one name per line
NameList(cs, refs) == [kind |-> "names", items |-> [k \in 1..Len(refs) |-> cs[refs[k]].name]]

\* the header line, then one disadvantage per line
DisadvantageList(ds) == [kind |-> "disadvantages", items |-> ds]

Init ==
    /\ file \in Files
    /\ opt \in Opts
    /\ characters = <<>>
    /\ pc = "load"
    /\ status = "running"
    /\ stdin_open = TRUE
    /\ line = <<>>
    /\ call = {}
    /\ out = Nothing
    /\ ran = {}
    /\ looped = FALSE

----------------------------------------------------------------------------
(* main *)

\* mutant: a failed load is swallowed (unwrap_or_default() for ?)
LoadLenient ==
    /\ pc = "load"
    /\ characters' = file.data
    /\ pc' = "dispatch"
    /\ UNCHANGED <<file, opt, status, stdin_open, line, call, out, ran, looped>>

\* line 172: load_characters(&opt.file)?
Load ==
    /\ pc = "load"
    /\ IF file.status = "ok"
       THEN /\ characters' = file.data
            /\ pc' = "dispatch"
            /\ status' = status
       ELSE /\ characters' = characters
            /\ pc' = "exit"
            /\ status' = "failure"
    /\ UNCHANGED <<file, opt, stdin_open, line, call, out, ran, looped>>

\* mutant: the loop is taken only when no query flag is given
DispatchQueriesFirst ==
    /\ pc = "dispatch"
    /\ IF opt.interactive /\ opt.character = {} /\ opt.skill_tag = {} /\ opt.meta = {}
       THEN pc' = "loop_top" /\ looped' = TRUE
       ELSE pc' = "character" /\ looped' = looped
    /\ UNCHANGED <<file, opt, characters, status, stdin_open, line, call, out, ran>>

\* line 174: if opt.interactive
Dispatch ==
    /\ pc = "dispatch"
    /\ IF opt.interactive
       THEN pc' = "loop_top" /\ looped' = TRUE
       ELSE pc' = "character" /\ looped' = looped
    /\ UNCHANGED <<file, opt, characters, status, stdin_open, line, call, out, ran>>

\* an entry of `ran`
Ran(flag, printed) == [flag |-> flag, printed |-> printed]

\* what a lookup prints
LookupOutput(found) == IF found = None THEN NotFound ELSE Display(found)

LookupCall(name, found) == [fn |-> "find", arg |-> name, result |-> found]

\* mutant: a failed lookup ends the run (ok_or(..)? for the if-let/else)
CharacterFlagAbort ==
    /\ pc = "character"
    /\ IF IsSome(opt.character)
       THEN LET name == Unwrap(opt.character)
                found == FindByName(characters, name)
            IN  /\ call' = Some(LookupCall(name, found))
                /\ out' = LookupOutput(found)
                /\ ran' = ran \cup {Ran("character", LookupOutput(found))}
                /\ IF found = None
                   THEN pc' = "exit" /\ status' = "failure"
                   ELSE pc' = "skill_tag" /\ status' = status
       ELSE UNCHANGED <<call, out, ran, status>> /\ pc' = "skill_tag"
    /\ UNCHANGED <<file, opt, characters, stdin_open, line, looped>>

\* lines 177-183
CharacterFlag ==
    /\ pc = "character"
    /\ IF IsSome(opt.character)
       THEN LET name == Unwrap(opt.character)
                found == FindByName(characters, name)
            IN  /\ call' = Some(LookupCall(name, found))
                /\ out' = LookupOutput(found)
                /\ ran' = ran \cup {Ran("character", LookupOutput(found))}
       ELSE UNCHANGED <<call, out, ran>>
    /\ pc' = "skill_tag"
    /\ UNCHANGED <<file, opt, characters, status, stdin_open, line, looped>>

TagCall(tag, refs) == [fn |-> "find_characters_by_skill_tag", arg |-> tag, result |-> refs]

\* lines 185-190
SkillTagFlag ==
    /\ pc = "skill_tag"
    /\ IF IsSome(opt.skill_tag)
       THEN LET tag == Unwrap(opt.skill_tag)
                refs == find_characters_by_skill_tag(characters, tag)
            IN  /\ call' = Some(TagCall(tag, refs))
                /\ out' = NameList(characters, refs)
                /\ ran' = ran \cup {Ran("skill_tag", NameList(characters, refs))}
       ELSE UNCHANGED <<call, out, ran>>
    /\ pc' = "meta"
    /\ UNCHANGED <<file, opt, characters, status, stdin_open, line, looped>>

MetaCall(selected, ds) == [fn |-> "find_disadvantages", arg |-> selected, result |-> ds]

\* lines 192-198
MetaFlag ==
    /\ pc = "meta"
    /\ IF IsSome(opt.meta)
       THEN LET selected == Unwrap(opt.meta)
            IN  \E ds \in find_disadvantages(characters, selected) :
                    /\ call' = Some(MetaCall(selected, ds))
                    /\ out' = DisadvantageList(ds)
                    /\ ran' = ran \cup {Ran("meta", DisadvantageList(ds))}
       ELSE UNCHANGED <<call, out, ran>>
    /\ pc' = "return"
    /\ UNCHANGED <<file, opt, characters, status, stdin_open, line, looped>>

\* line 201: Ok(())
Return ==
    /\ pc = "return"
    /\ pc' = "exit"
    /\ status' = "success"
    /\ UNCHANGED <<file, opt, characters, stdin_open, line, call, out, ran, looped>>

----------------------------------------------------------------------------
(* interactive_mode *)

\* io::stdin().read_line(&mut buf): Ok(n) with the line and its newline appended
\* (no newline on a last line cut by end-of-stream), Ok(0) with nothing appended
\* at end-of-stream, or an Err
ReadResults ==
    (IF stdin_open
     THEN {[ok |-> TRUE, buf |-> Append(l, "\n"), open |-> TRUE] : l \in Lines}
              \cup {[ok |-> TRUE, buf |-> l, open |-> FALSE] : l \in Lines \ {<<>>}}
              \cup {[ok |-> FALSE, buf |-> <<>>, open |-> TRUE]}
     ELSE {})
        \cup {[ok |-> TRUE, buf |-> <<>>, open |-> FALSE]}

\* .expect("Failed to read line") on an Err
Panic ==
    /\ pc' = "exit"
    /\ status' = "panicked"

\* lines 121-125, and the fresh locals of the iteration
PrintMenu ==
    /\ pc = "loop_top"
    /\ out' = Menu
    /\ line' = <<>>
    /\ call' = {}
    /\ pc' = "read_choice"
    /\ UNCHANGED <<file, opt, characters, status, stdin_open, ran, looped>>

\* lines 127-128
ReadChoice ==
    /\ pc = "read_choice"
    /\ \E r \in ReadResults :
        /\ stdin_open' = r.open
        /\ IF r.ok
           THEN line' = r.buf /\ pc' = "match" /\ status' = status
           ELSE line' = line /\ Panic
    /\ UNCHANGED <<file, opt, characters, call, out, ran, looped>>

\* lines 129-131 and 164-165: parse the choice and pick the arm
MatchChoice ==
    /\ pc = "match"
    /\ LET choice == ParseChoice(line)
       IN  CASE choice = 1 -> out' = Prompt("Enter character name:") /\ pc' = "arm1"
             [] choice = 2 -> out' = Prompt("Enter skill tag:") /\ pc' = "arm2"
             [] choice = 3 -> out' = Prompt("Enter character names (comma separated):")
                              /\ pc' = "arm3"
             [] choice = 4 -> out' = out /\ pc' = "return"
             [] OTHER -> out' = Invalid /\ pc' = "loop_top"
    /\ UNCHANGED <<file, opt, characters, status, stdin_open, line, call, ran, looped>>

\* lines 134-141
LookupArm ==
    /\ pc = "arm1"
    /\ \E r \in ReadResults :
        /\ stdin_open' = r.open
        /\ IF r.ok
           THEN LET name == Trim(r.buf)
                    found == FindByName(characters, name)
                IN  /\ line' = r.buf
                    /\ call' = Some(LookupCall(name, found))
                    /\ out' = LookupOutput(found)
                    /\ pc' = "loop_top"
                    /\ status' = status
           ELSE UNCHANGED <<line, call, out>> /\ Panic
    /\ UNCHANGED <<file, opt, characters, ran, looped>>

\* lines 145-151
SkillTagArm ==
    /\ pc = "arm2"
    /\ \E r \in ReadResults :
        /\ stdin_open' = r.open
        /\ IF r.ok
           THEN LET tag == Trim(r.buf)
                    refs == find_characters_by_skill_tag(characters, tag)
                IN  /\ line' = r.buf
                    /\ call' = Some(TagCall(tag, refs))
                    /\ out' = NameList(characters, refs)
                    /\ pc' = "loop_top"
                    /\ status' = status
           ELSE UNCHANGED <<line, call, out>> /\ Panic
    /\ UNCHANGED <<file, opt, characters, ran, looped>>

\* lines 155-162
MetaArm ==
    /\ pc = "arm3"
    /\ \E r \in ReadResults :
        /\ stdin_open' = r.open
        /\ IF r.ok
           THEN LET names == ParseNames(r.buf)
                IN  \E ds \in find_disadvantages(characters, names) :
                        /\ line' = r.buf
                        /\ call' = Some(MetaCall(names, ds))
                        /\ out' = DisadvantageList(ds)
                        /\ pc' = "loop_top"
                        /\ status' = status
           ELSE UNCHANGED <<line, call, out>> /\ Panic
    /\ UNCHANGED <<file, opt, characters, ran, looped>>

----------------------------------------------------------------------------

Next ==
    \/ Load
    \/ Dispatch
    \/ CharacterFlag
    \/ SkillTagFlag
    \/ MetaFlag
    \/ Return
    \/ PrintMenu
    \/ ReadChoice
    \/ MatchChoice
    \/ LookupArm
    \/ SkillTagArm
    \/ MetaArm

Spec == Init /\ [][Next]_vars

\* the runs on a store of at most one record
SmallInit == Init /\ Len(file.data) <= 1

\* the process runs whenever it can: nothing suspends it but a read, and a read
\* returns (a line, an error, or at once with nothing at end-of-stream)
FairSpec == SmallInit /\ [][Next]_vars /\ WF_vars(Next)

----------------------------------------------------------------------------
(* Vocabulary of the properties, stated without the operators of the model *)

Range(v) == {v[i] : i \in DOMAIN v}

NoQueryFlags == opt.character = {} /\ opt.skill_tag = {} /\ opt.meta = {}

IsCall(fn) == call # {} /\ Unwrap(call).fn = fn

\* the store characters a selection names, each once
Selected(selected) == {i \in DOMAIN characters : characters[i].name \in Range(selected)}

\* occurrences of d in the disadvantages lists of the selected characters
Occurrences(selected, d) ==
    Cardinality(UNION {{<<i, k>> : k \in {k \in DOMAIN characters[i].disadvantages :
                                              characters[i].disadvantages[k] = d}} :
                       i \in Selected(selected)})

\* the store characters owning a skill tagged t
Tagged(t) ==
    {i \in DOMAIN characters :
        \E sk \in Range(characters[i].skills) : t \in Range(sk.tags)}

\* the text of a line between its leading and trailing whitespace
Text(l) ==
    LET ink == {i \in DOMAIN l : l[i] \notin {" ", "\n", "\t", "\r"}}
    IN  IF ink = {} THEN <<>>
        ELSE SubSeq(l, CHOOSE i \in ink : \A j \in ink : i <= j,
                       CHOOSE i \in ink : \A j \in ink : j <= i)

\* the text is a decimal numeral of value n (1..9): an optional sign "+", zeros, n
Denotes(l, n) ==
    LET t == Text(l)
        d == IF t # <<>> /\ t[1] = "+" THEN Tail(t) ELSE t
    IN  /\ d # <<>>
        /\ d[Len(d)] = n
        /\ \A i \in 1..(Len(d) - 1) : d[i] = "0"

Recognized(l) == \E n \in {"1", "2", "3", "4"} : Denotes(l, n)

\* the one-shot flags main has executed
FlagsRan == {r.flag : r \in ran}

\* main's --character lookup printed "Character not found."
MissedOneShot ==
    [flag |-> "character",
     printed |-> [kind |-> "message", text |-> "Character not found."]] \in ran

----------------------------------------------------------------------------
(* Properties *)

\* C1: started with no query flag and without --interactive, on a file that
\* loads, the program enters the menu loop instead of exiting having run nothing.
C1_NoFlagsEntersLoop ==
    (NoQueryFlags /\ ~opt.interactive /\ file.status = "ok" /\ pc = "exit") => looped

\* C2: once a read at the menu prompt has returned no data (end-of-stream),
\* the loop terminates: the program eventually exits.
C2_EofEndsLoop == (pc = "match" /\ line = <<>>) ~> (pc = "exit")

\* C3: the list find_disadvantages returns is ordered by non-increasing
\* occurrence count over the selected characters.
C3_SortedByCount ==
    IsCall("find_disadvantages") =>
        LET c == Unwrap(call)
        IN  \A i \in 1..(Len(c.result) - 1) :
                Occurrences(c.arg, c.result[i]) >= Occurrences(c.arg, c.result[i + 1])

C3_Witness ==
    /\ IsCall("find_disadvantages")
    /\ LET c == Unwrap(call)
       IN  /\ Len(c.result) >= 2
           /\ Cardinality(Selected(c.arg)) >= 2
           /\ Len(c.arg) > Cardinality(Range(c.arg))
           /\ Occurrences(c.arg, c.result[1]) > Occurrences(c.arg, c.result[Len(c.result)])

\* C4: the list find_disadvantages returns holds, each exactly once, exactly the
\* strings in the disadvantages list of some store character named in the
\* selection; it is empty when nothing is selected or nothing matches.
C4_ExactlySelectedDisadvantages ==
    IsCall("find_disadvantages") =>
        LET c == Unwrap(call)
        IN  /\ \A i, j \in DOMAIN c.result : i # j => c.result[i] # c.result[j]
            /\ Range(c.result) =
                   UNION {Range(characters[i].disadvantages) : i \in Selected(c.arg)}
            /\ (Selected(c.arg) = {} => c.result = <<>>)

C4_Witness ==
    /\ IsCall("find_disadvantages")
    /\ LET c == Unwrap(call)
       IN  /\ c.result # <<>>
           /\ \E n \in Range(c.arg) : \A i \in DOMAIN characters : characters[i].name # n
           /\ \E i \in DOMAIN characters :
                  Range(characters[i].disadvantages) \cap Range(c.result) = {}

\* C5: a lookup returns the first character in store order whose name equals the
\* identifier exactly, and not-found exactly when no character has that name.
C5_FirstExactMatch ==
    IsCall("find") =>
        LET c == Unwrap(call)
            matches == {i \in DOMAIN characters : characters[i].name = c.arg}
        IN  /\ (c.result = None) <=> (matches = {})
            /\ c.result = None => out = NotFound
            /\ c.result # None =>
                   /\ c.result \in matches
                   /\ \A j \in matches : c.result <= j
                   /\ out = Display(c.result)

C5_Witness ==
    /\ IsCall("find")
    /\ looped
    /\ LET c == Unwrap(call)
       IN  /\ c.result = 1
           /\ Len(characters) = 2
           /\ characters[2].name = c.arg
           /\ characters[2] # characters[1]

\* C6: find_characters_by_skill_tag returns exactly the characters owning a skill
\* whose tags contain the tag, each once, in store order; empty when none does.
C6_ExactlyTaggedInOrder ==
    IsCall("find_characters_by_skill_tag") =>
        LET c == Unwrap(call)
        IN  /\ Range(c.result) = Tagged(c.arg)
            /\ \A i, j \in DOMAIN c.result : i < j => c.result[i] < c.result[j]
            /\ (Tagged(c.arg) = {} => c.result = <<>>)

C6_Witness ==
    /\ IsCall("find_characters_by_skill_tag")
    /\ LET c == Unwrap(call)
       IN  /\ c.result = <<2>>
           /\ characters[1].skills # <<>>
           /\ Len(characters[2].skills) = 2

\* C7: a menu line that is not one of the options 1 to 4 prints "Invalid option,
\* try again.", runs no query and goes back to the top of the loop; the process
\* keeps running.
C7_InvalidOptionReprompts ==
    [][(pc = "match" /\ line # <<>> /\ ~Recognized(line)) =>
          /\ out' = Invalid
          /\ call' = {}
          /\ pc' = "loop_top"
          /\ status' = "running"]_vars

C7_Witness ==
    /\ pc = "loop_top"
    /\ out = Invalid
    /\ line = <<"a", "b", "c", "\n">>
    /\ status = "running"

\* C8: a lookup that finds no character prints "Character not found." and the
\* run goes on: in one-shot mode to the --skill-tag and --meta queries and a
\* successful exit, in the loop back to the menu.
C8_NotFoundContinues ==
    /\ [][(pc \in {"character", "arm1"} /\ call' # {}
              /\ \A i \in DOMAIN characters : characters[i].name # Unwrap(call').arg) =>
             /\ out' = NotFound
             /\ status' = "running"
             /\ pc' = (IF pc = "character" THEN "skill_tag" ELSE "loop_top")
             /\ pc = "character" => MissedOneShot']_vars
    /\ [](MissedOneShot =>
             /\ pc \in {"skill_tag", "meta", "return", "exit"}
             /\ status = (IF pc = "exit" THEN "success" ELSE "running")
             /\ pc \in {"return", "exit"} =>
                    /\ IsSome(opt.skill_tag) => "skill_tag" \in FlagsRan
                    /\ IsSome(opt.meta) => "meta" \in FlagsRan)
    /\ [][(pc = "loop_top" /\ out = NotFound) => (pc' = "read_choice" /\ out' = Menu)]_vars

C8_Witness ==
    /\ pc = "exit"
    /\ status = "success"
    /\ MissedOneShot
    /\ ~looped
    /\ FlagsRan = {"character", "skill_tag", "meta"}

\* C9: when the load fails the run ends with a failure status before any query:
\* nothing is looked up, filtered, aggregated or printed, the loop is not entered.
C9_LoadFailureAborts ==
    file.status # "ok" =>
        /\ pc \in {"load", "exit"}
        /\ pc = "exit" => status = "failure"
        /\ call = {}
        /\ out = Nothing
        /\ ran = {}
        /\ ~looped

C9_Witness ==
    /\ file.status = "malformed"
    /\ pc = "exit"
    /\ status = "failure"
    /\ ~NoQueryFlags

\* C10: with --interactive (and a store that loaded) the loop is entered whatever
\* the other flags, no one-shot query of main is executed, and option 4 leaves
\* the loop to a successful exit.
C10_InteractiveOnly ==
    /\ [][(pc = "dispatch" /\ opt.interactive) => (pc' = "loop_top" /\ looped')]_vars
    /\ [](opt.interactive => ran = {} /\ pc \notin {"character", "skill_tag", "meta"})
    /\ [](looped => ran = {})
    /\ [][(pc = "match" /\ Denotes(line, "4")) => (pc' = "return" /\ status' = "running")]_vars
    /\ [][pc = "return" => (pc' = "exit" /\ status' = "success")]_vars

C10_Witness ==
    /\ pc = "exit"
    /\ status = "success"
    /\ looped
    /\ line = <<"4", "\n">>
    /\ ~NoQueryFlags
    /\ ran = {}

====
